---- MODULE Spec2Model ----
(***************************************************************************)
(* Model of src/src/main.rs (kraken-pnl-calculator):                       *)
(*   fetch_trades     - the two pagination loops, the symbol filter, the   *)
(*                      closed-order filter and the final sort;            *)
(*   compute_fifo_pnl - the FIFO lot queue and the running totals.         *)
(*                                                                         *)
(* fetch_trades is one sequential function.  It is cut into steps at its   *)
(* blocking calls: sending a request, receiving its response (with all the *)
(* code up to the next blocking call), and the sleep.                      *)
(***************************************************************************)
EXTENDS Integers, Sequences, FiniteSets, TLC

VARIABLES
    pc,                  \* position of fetch_trades
    userref,             \* TRUE iff a userref was supplied (userref.is_some())
    delay,               \* seconds to sleep between two page requests
    offset,              \* the local `offset`
    relevant_trades,     \* the local `relevant_trades`
    closed_order_txids,  \* the local `closed_order_txids`
    trades,              \* the returned Vec<Trade> (meaningful once returned)
    returned,            \* TRUE once fetch_trades has returned to its caller
    log,                 \* history: requests, responses and sleeps, in order
    trades_count,        \* history: result.count of the last trade-history page
    const_count,         \* history: N if every trade-history page so far reported N
    orders_count,        \* history: result.count of the last closed-orders page
    err_seen,            \* history: a response failed or carried an error payload
    delivered,           \* history: trade records delivered on fetched pages
    ids_delivered,       \* history: order ids delivered on closed-orders pages
    twin_relevant,       \* `relevant_trades` of a second run fed the same pages
    twin_trades,         \* the Vec<Trade> the second run returns
    fpc,                 \* position of compute_fifo_pnl
    year,                \* the argument `year` (NoYear for None)
    fifo_queue,          \* the local `fifo_queue`
    realized_pnl,
    balance,
    price,               \* the local `price`: the last trade's price
    total_buy_volume_base,
    total_sell_volume_base,
    total_buy_volume_quote,
    total_sell_volume_quote,
    total_cost_of_sold_assets,
    total_value_of_sold_assets,
    unrealized_pnl,      \* meaningful once compute_fifo_pnl has returned
    processed,           \* history: the trades iterated so far, in order
    twin_call            \* a second call on the same trades, with another `year`

fvars == <<pc, userref, delay, offset, relevant_trades, closed_order_txids,
           trades, returned, log, trades_count, const_count, orders_count,
           err_seen, delivered, ids_delivered, twin_relevant, twin_trades>>

pvars == <<fpc, year, fifo_queue, realized_pnl, balance, price,
           total_buy_volume_base, total_sell_volume_base,
           total_buy_volume_quote, total_sell_volume_quote,
           total_cost_of_sold_assets, total_value_of_sold_assets,
           unrealized_pnl, processed, twin_call>>

vars == <<fvars, pvars>>

-----------------------------------------------------------------------------
(* Bounds of the model.                                                    *)

\* the server reports total_count values up to MaxPages pages' worth
MaxPages == 3
\* trade ids of the server's ledger: 1..MaxTrades
MaxTrades == 4
\* order ids the server knows: 1..MaxOrders
MaxOrders == 2

-----------------------------------------------------------------------------
(* Program constants.                                                      *)

PageSize == 50
OffsetStep == 50
DelayStarter == 7
DelayPro == 2

Symbol == "XXBTZEUR"
OtherPair == "XETHZEUR"

-----------------------------------------------------------------------------
(* The server's ledger.  A Trade carries the fields fetch_trades reads     *)
(* (ordertxid, pair, time); txid is the key under which the page's map     *)
(* delivers it, which the code drops (main.rs:228) and the model keeps to  *)
(* tell deliveries of the same trade apart from different trades.          *)

PairOf(id) == IF id % 4 = 3 THEN OtherPair ELSE Symbol
TimeOf(id) == (2 * id) % 3
OrderOf(id) == ((id - 1) % MaxOrders) + 1

Trade(id) ==
    [txid |-> id, ordertxid |-> OrderOf(id), pair |-> PairOf(id), time |-> TimeOf(id)]

Range(s) == {s[i] : i \in 1..Len(s)}

\* A HashMap is iterated in an arbitrary order: every enumeration of its
\* entries, each exactly once.
IterOrders(S) ==
    {s \in [1..Cardinality(S) -> S] : \A x \in S : \E i \in 1..Cardinality(S) : s[i] = x}

TradePagesUpTo(n, k) == {S \in SUBSET (1..n) : Cardinality(S) <= k}

\* total_count values the server may report for the trade history
MaxCount == MaxPages * PageSize
PagCounts ==
    {k * PageSize : k \in 0..MaxPages} \cup {k * PageSize + 20 : k \in 0..(MaxPages - 1)}

\* Requests one loop may issue in the model.  A trade-history loop fed
\* counts <= MaxCount ends within MaxPages requests, so the budget binds only
\* a loop that would go on asking.
MaxRequests == MaxPages + 1

-----------------------------------------------------------------------------
(* The pure parts of fetch_trades.                                         *)

\* main.rs:224-229  .into_iter().filter(pair == symbol).map(..).collect(),
\* applied to the page's entries in their iteration order
TradesPageKeepAll(entries) == entries
TradesPageKeep(entries) == SelectSeq(entries, LAMBDA t : t.pair = Symbol)

\* main.rs:232  if result.count as usize <= offset + 50 { break; }
TradesLoopStopsStrict(count, ofs) == count < ofs + PageSize
TradesLoopStops(count, ofs) == count <= ofs + PageSize

\* main.rs:266  if result.count as usize <= closed_order_txids.len() { break; }
OrdersLoopStops(count, ids) == count <= Len(ids)

\* main.rs:278-281  .filter(|trade| closed_order_txids.contains(&trade.ordertxid))
FilterByClosedOrders(rel, ids) ==
    SelectSeq(rel, LAMBDA t : \E i \in 1..Len(ids) : ids[i] = t.ordertxid)

\* main.rs:285  trades.sort_by(|a, b| a.time.partial_cmp(&b.time).unwrap())
\* slice::sort_by is a stable sort; the times come from JSON numbers, which
\* are never NaN, so partial_cmp never yields None.  Computed here as a
\* stable insertion sort: an element goes behind every element not later
\* than it.
RECURSIVE InsertByTime(_, _)
InsertByTime(s, t) ==
    IF s = <<>> THEN <<t>>
    ELSE IF s[Len(s)].time <= t.time THEN Append(s, t)
    ELSE Append(InsertByTime(SubSeq(s, 1, Len(s) - 1), t), s[Len(s)])

RECURSIVE InsertByTimeUnstable(_, _)
InsertByTimeUnstable(s, t) ==
    IF s = <<>> THEN <<t>>
    ELSE IF s[Len(s)].time < t.time THEN Append(s, t)
    ELSE Append(InsertByTimeUnstable(SubSeq(s, 1, Len(s) - 1), t), s[Len(s)])

RECURSIVE SortByTimeUnstable(_)
SortByTimeUnstable(s) ==
    IF s = <<>> THEN <<>>
    ELSE InsertByTimeUnstable(SortByTimeUnstable(SubSeq(s, 1, Len(s) - 1)), s[Len(s)])

RECURSIVE SortByTime(_)
SortByTime(s) ==
    IF s = <<>> THEN <<>>
    ELSE InsertByTime(SortByTime(SubSeq(s, 1, Len(s) - 1)), s[Len(s)])

\* main.rs:245-286  the value fetch_trades returns
FinishFetch(rel, ids, uref) ==
    SortByTime(IF uref THEN FilterByClosedOrders(rel, ids) ELSE rel)

Event(ev, coll, arg) == [ev |-> ev, coll |-> coll, arg |-> arg]

-----------------------------------------------------------------------------
(* fetch_trades.                                                           *)

\* main.rs:199-214  the state in which the first request is about to be sent
InitFetch(Uref, Dly) ==
    /\ pc = "t_send"
    /\ userref \in Uref
    /\ delay \in Dly
    /\ offset = 0
    /\ relevant_trades = <<>>
    /\ closed_order_txids = <<>>
    /\ trades = <<>>
    /\ returned = FALSE
    /\ log = <<>>
    /\ trades_count = -1
    /\ const_count = -1
    /\ orders_count = -1
    /\ err_seen = FALSE
    /\ delivered = {}
    /\ ids_delivered = {}
    /\ twin_relevant = <<>>
    /\ twin_trades = <<>>

\* main.rs:216-219  the TradesHistory request with ofs = offset goes out
SendTrades ==
    /\ pc = "t_send"
    /\ pc' = "t_wait"
    /\ log' = Append(log, Event("req", "trades", offset))
    /\ UNCHANGED pvars
    /\ UNCHANGED <<userref, delay, offset, relevant_trades, closed_order_txids,
                   trades, returned, trades_count, const_count, orders_count,
                   err_seen, delivered, ids_delivered, twin_relevant, twin_trades>>

\* main.rs:220-235, 245-252, 283-286  a response that parses and has a result:
\* the page's entries are filtered and appended, then the loop either goes on
\* to its sleep or stops; past the loop, a run without userref sorts and
\* returns, a run with userref resets offset for the closed-orders loop.
\* errs: the response's error list is non-empty; entries, twin: the order in
\* which this run and the second run iterate the page's map.
RecvTradesPage(Pages, Counts, Errs) ==
    /\ pc = "t_wait"
    /\ \E page \in Pages, count \in Counts, errs \in Errs :
       \E entries \in IterOrders({Trade(id) : id \in page}),
          twin \in IterOrders({Trade(id) : id \in page}) :
          LET rel == relevant_trades \o TradesPageKeep(entries)
              trel == twin_relevant \o TradesPageKeep(twin)
              stop == TradesLoopStops(count, offset)
          IN  /\ relevant_trades' = rel
              /\ twin_relevant' = trel
              /\ log' = Append(log, Event("page", "trades", 0))
              /\ trades_count' = count
              /\ const_count' = IF const_count \in {-1, count} THEN count ELSE -2
              /\ err_seen' = (err_seen \/ errs)
              /\ delivered' = delivered \cup {Trade(id) : id \in page}
              /\ pc' = IF ~stop THEN "t_sleep" ELSE IF userref THEN "o_send" ELSE "done"
              /\ offset' = IF stop /\ userref THEN 0 ELSE offset
              /\ closed_order_txids' = IF stop /\ userref THEN <<>> ELSE closed_order_txids
              /\ returned' = (stop /\ ~userref)
              /\ trades' = IF stop /\ ~userref THEN FinishFetch(rel, <<>>, FALSE) ELSE trades
              /\ twin_trades' =
                    IF stop /\ ~userref THEN FinishFetch(trel, <<>>, FALSE) ELSE twin_trades
    /\ UNCHANGED pvars
    /\ UNCHANGED <<userref, delay, orders_count, ids_delivered>>

\* main.rs:236-239  a response that parses but has no result: exit(1)
RecvTradesNoResult(Errs) ==
    /\ pc = "t_wait"
    /\ \E errs \in Errs :
          /\ err_seen' = (err_seen \/ errs)
          /\ log' = Append(log, Event("noresult", "trades", 0))
    /\ pc' = "exit"
    /\ UNCHANGED pvars
    /\ UNCHANGED <<userref, delay, offset, relevant_trades, closed_order_txids,
                   trades, returned, trades_count, const_count, orders_count,
                   delivered, ids_delivered, twin_relevant, twin_trades>>

\* main.rs:157, 159-164, 221  the request fails, or the status is not a
\* success (request returns ""), or the body does not parse: expect panics
RecvTradesFailure ==
    /\ pc = "t_wait"
    /\ pc' = "panic"
    /\ err_seen' = TRUE
    /\ log' = Append(log, Event("failure", "trades", 0))
    /\ UNCHANGED pvars
    /\ UNCHANGED <<userref, delay, offset, relevant_trades, closed_order_txids,
                   trades, returned, trades_count, const_count, orders_count,
                   delivered, ids_delivered, twin_relevant, twin_trades>>

\* main.rs:235, 241  sleep(delay), then offset += 50
SleepTrades ==
    /\ pc = "t_sleep"
    /\ pc' = "t_send"
    /\ log' = Append(log, Event("sleep", "trades", delay))
    /\ offset' = offset + OffsetStep
    /\ UNCHANGED pvars
    /\ UNCHANGED <<userref, delay, relevant_trades, closed_order_txids,
                   trades, returned, trades_count, const_count, orders_count,
                   err_seen, delivered, ids_delivered, twin_relevant, twin_trades>>

\* main.rs:255-258  the ClosedOrders request with ofs = offset goes out
SendOrders ==
    /\ pc = "o_send"
    /\ offset < MaxRequests * OffsetStep
    /\ pc' = "o_wait"
    /\ log' = Append(log, Event("req", "orders", offset))
    /\ UNCHANGED pvars
    /\ UNCHANGED <<userref, delay, offset, relevant_trades, closed_order_txids,
                   trades, returned, trades_count, const_count, orders_count,
                   err_seen, delivered, ids_delivered, twin_relevant, twin_trades>>

\* main.rs:259-269, 278-286  a response that parses and has a result: the
\* page's keys are appended; the loop goes on to its sleep, or stops, and the
\* trades are filtered by the collected ids, sorted and returned.  The second
\* run reads the same keys: only their membership and number are used.
RecvOrdersPage(Pages, Counts, Errs) ==
    /\ pc = "o_wait"
    /\ \E page \in Pages, count \in Counts, errs \in Errs :
       \E keys \in IterOrders(page) :
          LET ids == closed_order_txids \o keys
              stop == OrdersLoopStops(count, ids)
          IN  /\ closed_order_txids' = ids
              /\ log' = Append(log, Event("page", "orders", 0))
              /\ orders_count' = count
              /\ err_seen' = (err_seen \/ errs)
              /\ ids_delivered' = ids_delivered \cup page
              /\ pc' = IF stop THEN "done" ELSE "o_sleep"
              /\ returned' = stop
              /\ trades' = IF stop THEN FinishFetch(relevant_trades, ids, TRUE) ELSE trades
              /\ twin_trades' =
                    IF stop THEN FinishFetch(twin_relevant, ids, TRUE) ELSE twin_trades
    /\ UNCHANGED pvars
    /\ UNCHANGED <<userref, delay, offset, relevant_trades, trades_count,
                   const_count, delivered, twin_relevant>>

\* main.rs:270-273  a response that parses but has no result: exit(1)
RecvOrdersNoResult(Errs) ==
    /\ pc = "o_wait"
    /\ \E errs \in Errs :
          /\ err_seen' = (err_seen \/ errs)
          /\ log' = Append(log, Event("noresult", "orders", 0))
    /\ pc' = "exit"
    /\ UNCHANGED pvars
    /\ UNCHANGED <<userref, delay, offset, relevant_trades, closed_order_txids,
                   trades, returned, trades_count, const_count, orders_count,
                   delivered, ids_delivered, twin_relevant, twin_trades>>

\* main.rs:157, 159-164, 260  failed request, non-success status or
\* unparsable body: expect panics
RecvOrdersFailure ==
    /\ pc = "o_wait"
    /\ pc' = "panic"
    /\ err_seen' = TRUE
    /\ log' = Append(log, Event("failure", "orders", 0))
    /\ UNCHANGED pvars
    /\ UNCHANGED <<userref, delay, offset, relevant_trades, closed_order_txids,
                   trades, returned, trades_count, const_count, orders_count,
                   delivered, ids_delivered, twin_relevant, twin_trades>>

SleepOrdersSkipped ==
    /\ pc = "o_sleep"
    /\ pc' = "o_send"
    /\ offset' = offset + OffsetStep
    /\ UNCHANGED pvars
    /\ UNCHANGED <<userref, delay, relevant_trades, closed_order_txids,
                   trades, returned, log, trades_count, const_count, orders_count,
                   err_seen, delivered, ids_delivered, twin_relevant, twin_trades>>

\* main.rs:269, 275  sleep(delay), then offset += 50
SleepOrders ==
    /\ pc = "o_sleep"
    /\ pc' = "o_send"
    /\ log' = Append(log, Event("sleep", "orders", delay))
    /\ offset' = offset + OffsetStep
    /\ UNCHANGED pvars
    /\ UNCHANGED <<userref, delay, relevant_trades, closed_order_txids,
                   trades, returned, trades_count, const_count, orders_count,
                   err_seen, delivered, ids_delivered, twin_relevant, twin_trades>>

-----------------------------------------------------------------------------
(* compute_fifo_pnl.  The f64 values are modelled as exact rationals       *)
(* <<numerator, denominator>> in lowest terms with a positive denominator, *)
(* the arithmetic the identities of the specification are stated in;       *)
(* rounding is not modelled.                                               *)

Abs(n) == IF n < 0 THEN -n ELSE n

RECURSIVE GCD(_, _)
GCD(a, b) == IF b = 0 THEN a ELSE GCD(b, a % b)

Norm(n, d) == LET g == GCD(Abs(n), d) IN <<n \div g, d \div g>>
R(n) == <<n, 1>>
RAdd(a, b) == Norm(a[1] * b[2] + b[1] * a[2], a[2] * b[2])
RSub(a, b) == Norm(a[1] * b[2] - b[1] * a[2], a[2] * b[2])
RMul(a, b) == Norm(a[1] * b[1], a[2] * b[2])
RDiv(a, b) ==
    IF b[1] > 0 THEN Norm(a[1] * b[2], a[2] * b[1]) ELSE Norm(-(a[1] * b[2]), -(a[2] * b[1]))
RLe(a, b) == a[1] * b[2] <= b[1] * a[2]
RLt(a, b) == a[1] * b[2] < b[1] * a[2]

\* trades one call may iterate
MaxLen == 4

\* main.rs:307  year: Option<u32>; None is modelled as NoYear
NoYear == -1
YearArgs == {NoYear, 2023, 2024}

\* 2023-12-31T23:59:59Z and 2024-01-01T00:00:00Z, in epoch seconds
FifoTimes == {1704067199, 1704067200}
PriceAt(t) == IF t < 1704067200 THEN R(2) ELSE R(3)
FeeAt(t) == IF t < 1704067200 THEN R(0) ELSE R(1)

\* The Trade fields compute_fifo_pnl reads, vol, price and fee already
\* parsed (main.rs:323-325).
FifoTrades ==
    {[side |-> sd, vol |-> R(v), price |-> PriceAt(t), fee |-> FeeAt(t), time |-> t] :
        sd \in {"buy", "sell", "settled"}, v \in {1, 2}, t \in FifoTimes}

\* main.rs:321  DateTime::from_timestamp_nanos((trade.time * 1e9) as i64).year():
\* the year of the UTC calendar date the instant falls on.  The instant is
\* kept in whole seconds here (the nanosecond count does not fit a 32-bit
\* integer); days since the epoch are turned into a civil year.
YearOfSeconds(secs) ==
    LET days == secs \div 86400
        z == days + 719468
        era == z \div 146097
        doe == z - era * 146097
        yoe == (doe - doe \div 1460 + doe \div 36524 - doe \div 146096) \div 365
        doy == doe - (365 * yoe + yoe \div 4 - yoe \div 100)
        mp == (5 * doy + 2) \div 153
        m == IF mp < 10 THEN mp + 3 ELSE mp - 9
    IN  yoe + era * 400 + (IF m <= 2 THEN 1 ELSE 0)
TradeYear(t) == YearOfSeconds(t.time)

Lot(amount, cost, born) == [amount |-> amount, cost |-> cost, born |-> born]

\* main.rs:338-352  the while loop of a sell: lots are popped from the front
\* while something is left to sell; a lot not larger than the rest is
\* consumed whole, a larger one is split and its remainder pushed back to the
\* front.  `born` numbers the buy that made the lot; the code does not hold it.
RECURSIVE ConsumeLotsBack(_, _, _)
ConsumeLotsBack(queue, to_sell, cost_basis) ==
    IF RLt(R(0), to_sell) /\ queue # <<>>
    THEN LET lot == Head(queue)
             rest == Tail(queue)
         IN  IF RLe(lot.amount, to_sell)
             THEN ConsumeLotsBack(rest, RSub(to_sell, lot.amount), RAdd(cost_basis, lot.cost))
             ELSE LET partial_cost == RMul(RDiv(lot.cost, lot.amount), to_sell)
                  IN  ConsumeLotsBack(
                         Append(rest, Lot(RSub(lot.amount, to_sell),
                                          RSub(lot.cost, partial_cost), lot.born)),
                         R(0), RAdd(cost_basis, partial_cost))
    ELSE [queue |-> queue, cost_basis |-> cost_basis]

\* the while loop of a sell splitting also a lot equal to the rest to sell
RECURSIVE ConsumeLotsStrict(_, _, _)
ConsumeLotsStrict(queue, to_sell, cost_basis) ==
    IF RLt(R(0), to_sell) /\ queue # <<>>
    THEN LET lot == Head(queue)
             rest == Tail(queue)
         IN  IF RLt(lot.amount, to_sell)
             THEN ConsumeLotsStrict(rest, RSub(to_sell, lot.amount),
                                    RAdd(cost_basis, lot.cost))
             ELSE LET partial_cost == RMul(RDiv(lot.cost, lot.amount), to_sell)
                  IN  ConsumeLotsStrict(
                         <<Lot(RSub(lot.amount, to_sell),
                               RSub(lot.cost, partial_cost), lot.born)>> \o rest,
                         R(0), RAdd(cost_basis, partial_cost))
    ELSE [queue |-> queue, cost_basis |-> cost_basis]

\* the while loop of a sell leaving a split lot with its whole cost
RECURSIVE ConsumeLotsKeepCost(_, _, _)
ConsumeLotsKeepCost(queue, to_sell, cost_basis) ==
    IF RLt(R(0), to_sell) /\ queue # <<>>
    THEN LET lot == Head(queue)
             rest == Tail(queue)
         IN  IF RLe(lot.amount, to_sell)
             THEN ConsumeLotsKeepCost(rest, RSub(to_sell, lot.amount),
                                      RAdd(cost_basis, lot.cost))
             ELSE LET partial_cost == RMul(RDiv(lot.cost, lot.amount), to_sell)
                  IN  ConsumeLotsKeepCost(
                         <<Lot(RSub(lot.amount, to_sell), lot.cost, lot.born)>> \o rest,
                         R(0), RAdd(cost_basis, partial_cost))
    ELSE [queue |-> queue, cost_basis |-> cost_basis]

RECURSIVE ConsumeLots(_, _, _)
ConsumeLots(queue, to_sell, cost_basis) ==
    IF RLt(R(0), to_sell) /\ queue # <<>>
    THEN LET lot == Head(queue)
             rest == Tail(queue)
         IN  IF RLe(lot.amount, to_sell)
             THEN ConsumeLots(rest, RSub(to_sell, lot.amount), RAdd(cost_basis, lot.cost))
             ELSE LET partial_cost == RMul(RDiv(lot.cost, lot.amount), to_sell)
                  IN  ConsumeLots(
                         <<Lot(RSub(lot.amount, to_sell),
                               RSub(lot.cost, partial_cost), lot.born)>> \o rest,
                         R(0), RAdd(cost_basis, partial_cost))
    ELSE [queue |-> queue, cost_basis |-> cost_basis]

\* main.rs:370-373  sum over the queue of (price - cost / amount) * amount
RECURSIVE UnrealizedPnl(_, _)
UnrealizedPnl(queue, last_price) ==
    IF queue = <<>> THEN R(0)
    ELSE LET lot == Head(queue)
         IN  RAdd(RMul(RSub(last_price, RDiv(lot.cost, lot.amount)), lot.amount),
                  UnrealizedPnl(Tail(queue), last_price))

(* compute_fifo_pnl as a function of its two arguments: the same loop,     *)
(* folded over a given sequence of trades.  It gives the steps of a second *)
(* call, and the result of a call on other trades.                         *)

\* main.rs:309-318  the locals before the first trade
FifoLocals ==
    [fifo_queue |-> <<>>, realized_pnl |-> R(0), balance |-> R(0), price |-> R(0),
     total_buy_volume_base |-> R(0), total_sell_volume_base |-> R(0),
     total_buy_volume_quote |-> R(0), total_sell_volume_quote |-> R(0),
     total_cost_of_sold_assets |-> R(0), total_value_of_sold_assets |-> R(0)]

\* main.rs:327-332  the locals after a buy, the n-th trade of the call
AfterBuy(st, trade, n) ==
    LET amount == trade.vol
        total_cost == RAdd(RMul(amount, trade.price), trade.fee)
    IN  [st EXCEPT !.fifo_queue = Append(@, Lot(amount, total_cost, n)),
                   !.balance = RAdd(@, amount),
                   !.total_buy_volume_base = RAdd(@, amount),
                   !.total_buy_volume_quote = RAdd(@, total_cost)]

\* main.rs:333-366  the locals after a sell of a call with year argument y
AfterSell(st, trade, y) ==
    LET amount == trade.vol
        sell_proceeds == RSub(RMul(amount, trade.price), trade.fee)
        consumed == ConsumeLots(st.fifo_queue, amount, R(0))
        cost_basis == consumed.cost_basis
        pnl == RSub(sell_proceeds, cost_basis)
    IN  [st EXCEPT !.fifo_queue = consumed.queue,
                   !.realized_pnl =
                       IF y # NoYear
                       THEN IF TradeYear(trade) = y THEN RAdd(@, pnl) ELSE @
                       ELSE RAdd(@, pnl),
                   !.balance = RSub(@, amount),
                   !.total_sell_volume_base = RAdd(@, amount),
                   !.total_sell_volume_quote = RAdd(@, sell_proceeds),
                   !.total_cost_of_sold_assets = RAdd(@, cost_basis),
                   !.total_value_of_sold_assets = RAdd(@, sell_proceeds)]

\* main.rs:320-368  the locals after one iteration
AfterTrade(st, trade, n, y) ==
    LET seen == [st EXCEPT !.price = trade.price]
    IN  IF trade.side = "buy" THEN AfterBuy(seen, trade, n)
        ELSE IF trade.side = "sell" THEN AfterSell(seen, trade, y)
        ELSE seen

\* main.rs:320-368  the locals after the trades from the i-th on
RECURSIVE FifoLoop(_, _, _, _)
FifoLoop(st, ts, i, y) ==
    IF i > Len(ts) THEN st ELSE FifoLoop(AfterTrade(st, ts[i], i, y), ts, i + 1, y)

\* main.rs:305-386  the locals at the end of the loop and the unrealized PnL
\* computed from them
ComputeFifoPnl(ts, y) ==
    LET st == FifoLoop(FifoLocals, ts, 1, y)
    IN  [locals |-> st, unrealized_pnl |-> UnrealizedPnl(st.fifo_queue, st.price)]

\* main.rs:307  a year argument other than y; every two different year
\* arguments are y and OtherYear(y) for some y
OtherYear(y) == IF y = NoYear THEN 2023 ELSE IF y = 2023 THEN 2024 ELSE NoYear

\* main.rs:305-318  a call with year argument y before its first trade
CallStart(y) == [year |-> y, locals |-> FifoLocals, unrealized_pnl |-> R(0)]

\* compute_fifo_pnl is not running
FifoIdle ==
    /\ fpc = "idle"
    /\ year = NoYear
    /\ fifo_queue = <<>>
    /\ realized_pnl = R(0)
    /\ balance = R(0)
    /\ price = R(0)
    /\ total_buy_volume_base = R(0)
    /\ total_sell_volume_base = R(0)
    /\ total_buy_volume_quote = R(0)
    /\ total_sell_volume_quote = R(0)
    /\ total_cost_of_sold_assets = R(0)
    /\ total_value_of_sold_assets = R(0)
    /\ unrealized_pnl = R(0)
    /\ processed = <<>>
    /\ twin_call = CallStart(NoYear)

\* fetch_trades is not running
FetchIdle ==
    /\ pc = "idle"
    /\ userref = FALSE
    /\ delay = DelayPro
    /\ offset = 0
    /\ relevant_trades = <<>>
    /\ closed_order_txids = <<>>
    /\ trades = <<>>
    /\ returned = FALSE
    /\ log = <<>>
    /\ trades_count = -1
    /\ const_count = -1
    /\ orders_count = -1
    /\ err_seen = FALSE
    /\ delivered = {}
    /\ ids_delivered = {}
    /\ twin_relevant = <<>>
    /\ twin_trades = <<>>

\* main.rs:309-318  the locals of compute_fifo_pnl before the first trade
InitFifo ==
    /\ FetchIdle
    /\ fpc = "loop"
    /\ year \in YearArgs
    /\ fifo_queue = <<>>
    /\ realized_pnl = R(0)
    /\ balance = R(0)
    /\ price = R(0)
    /\ total_buy_volume_base = R(0)
    /\ total_sell_volume_base = R(0)
    /\ total_buy_volume_quote = R(0)
    /\ total_sell_volume_quote = R(0)
    /\ total_cost_of_sold_assets = R(0)
    /\ total_value_of_sold_assets = R(0)
    /\ unrealized_pnl = R(0)
    /\ processed = <<>>
    /\ twin_call = CallStart(OtherYear(year))

\* a buy that first covers what earlier sells have over-sold: the lot holds
\* only the amount that brings the balance above zero
ProcessBuyCoverShort(trade) ==
    LET amount == trade.vol
        total_cost == RAdd(RMul(amount, trade.price), trade.fee)
        after == RAdd(balance, amount)
        kept == IF RLe(R(0), balance) THEN amount ELSE after
    IN  /\ fifo_queue' = IF RLt(R(0), kept)
                         THEN Append(fifo_queue, Lot(kept, total_cost, Len(processed) + 1))
                         ELSE fifo_queue
        /\ balance' = after
        /\ total_buy_volume_base' = RAdd(total_buy_volume_base, amount)
        /\ total_buy_volume_quote' = RAdd(total_buy_volume_quote, total_cost)
        /\ UNCHANGED <<realized_pnl, total_sell_volume_base, total_sell_volume_quote,
                       total_cost_of_sold_assets, total_value_of_sold_assets>>

\* main.rs:327-332  a buy
ProcessBuy(trade) ==
    LET amount == trade.vol
        total_cost == RAdd(RMul(amount, trade.price), trade.fee)
    IN  /\ fifo_queue' = Append(fifo_queue, Lot(amount, total_cost, Len(processed) + 1))
        /\ balance' = RAdd(balance, amount)
        /\ total_buy_volume_base' = RAdd(total_buy_volume_base, amount)
        /\ total_buy_volume_quote' = RAdd(total_buy_volume_quote, total_cost)
        /\ UNCHANGED <<realized_pnl, total_sell_volume_base, total_sell_volume_quote,
                       total_cost_of_sold_assets, total_value_of_sold_assets>>

\* a sell that gives away only what the balance holds
ProcessSellCapped(trade) ==
    LET amount == IF RLe(trade.vol, balance) THEN trade.vol ELSE balance
        sell_proceeds == RSub(RMul(amount, trade.price), trade.fee)
        consumed == ConsumeLots(fifo_queue, amount, R(0))
        cost_basis == consumed.cost_basis
        pnl == RSub(sell_proceeds, cost_basis)
    IN  /\ fifo_queue' = consumed.queue
        /\ realized_pnl' =
              IF year # NoYear
              THEN IF TradeYear(trade) = year THEN RAdd(realized_pnl, pnl) ELSE realized_pnl
              ELSE RAdd(realized_pnl, pnl)
        /\ balance' = RSub(balance, amount)
        /\ total_sell_volume_base' = RAdd(total_sell_volume_base, amount)
        /\ total_sell_volume_quote' = RAdd(total_sell_volume_quote, sell_proceeds)
        /\ total_cost_of_sold_assets' = RAdd(total_cost_of_sold_assets, cost_basis)
        /\ total_value_of_sold_assets' = RAdd(total_value_of_sold_assets, sell_proceeds)
        /\ UNCHANGED <<total_buy_volume_base, total_buy_volume_quote>>

\* a sell that never lets the balance fall below zero
ProcessSellFloor(trade) ==
    LET amount == trade.vol
        sell_proceeds == RSub(RMul(amount, trade.price), trade.fee)
        consumed == ConsumeLots(fifo_queue, amount, R(0))
        cost_basis == consumed.cost_basis
        pnl == RSub(sell_proceeds, cost_basis)
    IN  /\ fifo_queue' = consumed.queue
        /\ realized_pnl' =
              IF year # NoYear
              THEN IF TradeYear(trade) = year THEN RAdd(realized_pnl, pnl) ELSE realized_pnl
              ELSE RAdd(realized_pnl, pnl)
        /\ balance' = IF RLe(amount, balance) THEN RSub(balance, amount) ELSE R(0)
        /\ total_sell_volume_base' = RAdd(total_sell_volume_base, amount)
        /\ total_sell_volume_quote' = RAdd(total_sell_volume_quote, sell_proceeds)
        /\ total_cost_of_sold_assets' = RAdd(total_cost_of_sold_assets, cost_basis)
        /\ total_value_of_sold_assets' = RAdd(total_value_of_sold_assets, sell_proceeds)
        /\ UNCHANGED <<total_buy_volume_base, total_buy_volume_quote>>

\* a sell whose pnl is taken on the proceeds before the fee
ProcessSellGrossPnl(trade) ==
    LET amount == trade.vol
        sell_proceeds == RSub(RMul(amount, trade.price), trade.fee)
        consumed == ConsumeLots(fifo_queue, amount, R(0))
        cost_basis == consumed.cost_basis
        pnl == RSub(RMul(amount, trade.price), cost_basis)
    IN  /\ fifo_queue' = consumed.queue
        /\ realized_pnl' =
              IF year # NoYear
              THEN IF TradeYear(trade) = year THEN RAdd(realized_pnl, pnl) ELSE realized_pnl
              ELSE RAdd(realized_pnl, pnl)
        /\ balance' = RSub(balance, amount)
        /\ total_sell_volume_base' = RAdd(total_sell_volume_base, amount)
        /\ total_sell_volume_quote' = RAdd(total_sell_volume_quote, sell_proceeds)
        /\ total_cost_of_sold_assets' = RAdd(total_cost_of_sold_assets, cost_basis)
        /\ total_value_of_sold_assets' = RAdd(total_value_of_sold_assets, sell_proceeds)
        /\ UNCHANGED <<total_buy_volume_base, total_buy_volume_quote>>

\* a sell of another year than the year argument is skipped altogether
ProcessSellSkipOtherYears(trade) ==
    LET amount == trade.vol
        sell_proceeds == RSub(RMul(amount, trade.price), trade.fee)
        consumed == ConsumeLots(fifo_queue, amount, R(0))
        cost_basis == consumed.cost_basis
        pnl == RSub(sell_proceeds, cost_basis)
    IN  IF year # NoYear /\ TradeYear(trade) # year
        THEN UNCHANGED <<fifo_queue, realized_pnl, balance,
                         total_buy_volume_base, total_sell_volume_base,
                         total_buy_volume_quote, total_sell_volume_quote,
                         total_cost_of_sold_assets, total_value_of_sold_assets>>
        ELSE /\ fifo_queue' = consumed.queue
             /\ realized_pnl' = RAdd(realized_pnl, pnl)
             /\ balance' = RSub(balance, amount)
             /\ total_sell_volume_base' = RAdd(total_sell_volume_base, amount)
             /\ total_sell_volume_quote' = RAdd(total_sell_volume_quote, sell_proceeds)
             /\ total_cost_of_sold_assets' = RAdd(total_cost_of_sold_assets, cost_basis)
             /\ total_value_of_sold_assets' = RAdd(total_value_of_sold_assets, sell_proceeds)
             /\ UNCHANGED <<total_buy_volume_base, total_buy_volume_quote>>

\* a sell whose cost and value totals are year-filtered like the realized PnL
ProcessSellYearTotals(trade) ==
    LET amount == trade.vol
        sell_proceeds == RSub(RMul(amount, trade.price), trade.fee)
        consumed == ConsumeLots(fifo_queue, amount, R(0))
        cost_basis == consumed.cost_basis
        pnl == RSub(sell_proceeds, cost_basis)
        counted == year = NoYear \/ TradeYear(trade) = year
    IN  /\ fifo_queue' = consumed.queue
        /\ realized_pnl' = IF counted THEN RAdd(realized_pnl, pnl) ELSE realized_pnl
        /\ balance' = RSub(balance, amount)
        /\ total_sell_volume_base' = RAdd(total_sell_volume_base, amount)
        /\ total_sell_volume_quote' = RAdd(total_sell_volume_quote, sell_proceeds)
        /\ total_cost_of_sold_assets' =
              IF counted THEN RAdd(total_cost_of_sold_assets, cost_basis)
              ELSE total_cost_of_sold_assets
        /\ total_value_of_sold_assets' =
              IF counted THEN RAdd(total_value_of_sold_assets, sell_proceeds)
              ELSE total_value_of_sold_assets
        /\ UNCHANGED <<total_buy_volume_base, total_buy_volume_quote>>

\* main.rs:333-366  a sell
ProcessSell(trade) ==
    LET amount == trade.vol
        sell_proceeds == RSub(RMul(amount, trade.price), trade.fee)
        consumed == ConsumeLots(fifo_queue, amount, R(0))
        cost_basis == consumed.cost_basis
        pnl == RSub(sell_proceeds, cost_basis)
    IN  /\ fifo_queue' = consumed.queue
        /\ realized_pnl' =
              IF year # NoYear
              THEN IF TradeYear(trade) = year THEN RAdd(realized_pnl, pnl) ELSE realized_pnl
              ELSE RAdd(realized_pnl, pnl)
        /\ balance' = RSub(balance, amount)
        /\ total_sell_volume_base' = RAdd(total_sell_volume_base, amount)
        /\ total_sell_volume_quote' = RAdd(total_sell_volume_quote, sell_proceeds)
        /\ total_cost_of_sold_assets' = RAdd(total_cost_of_sold_assets, cost_basis)
        /\ total_value_of_sold_assets' = RAdd(total_value_of_sold_assets, sell_proceeds)
        /\ UNCHANGED <<total_buy_volume_base, total_buy_volume_quote>>

\* main.rs:320-368  one iteration of `for trade in trades`: the price is
\* taken from the trade whatever its side; a side that is neither "buy" nor
\* "sell" falls through both branches
ProcessTrade ==
    /\ fpc = "loop"
    /\ Len(processed) < MaxLen
    /\ \E trade \in FifoTrades :
          /\ processed' = Append(processed, trade)
          /\ twin_call' = [twin_call EXCEPT
                              !.locals = AfterTrade(@, trade, Len(processed) + 1,
                                                    twin_call.year)]
          /\ price' = trade.price
          /\ IF trade.side = "buy" THEN ProcessBuy(trade)
             ELSE IF trade.side = "sell" THEN ProcessSell(trade)
             ELSE UNCHANGED <<fifo_queue, realized_pnl, balance,
                              total_buy_volume_base, total_sell_volume_base,
                              total_buy_volume_quote, total_sell_volume_quote,
                              total_cost_of_sold_assets, total_value_of_sold_assets>>
    /\ UNCHANGED <<fpc, year, unrealized_pnl>>
    /\ UNCHANGED fvars

\* main.rs:370-386  the trades are exhausted: the open lots are valued at
\* the last price and the statistics returned
ReturnStats ==
    /\ fpc = "loop"
    /\ fpc' = "returned"
    /\ unrealized_pnl' = UnrealizedPnl(fifo_queue, price)
    /\ twin_call' = [twin_call EXCEPT
                        !.unrealized_pnl = UnrealizedPnl(twin_call.locals.fifo_queue,
                                                         twin_call.locals.price)]
    /\ UNCHANGED <<year, fifo_queue, realized_pnl, balance, price,
                   total_buy_volume_base, total_sell_volume_base,
                   total_buy_volume_quote, total_sell_volume_quote,
                   total_cost_of_sold_assets, total_value_of_sold_assets, processed>>
    /\ UNCHANGED fvars

NextFifo == ProcessTrade \/ ReturnStats

SpecFifo == InitFifo /\ [][NextFifo]_vars

-----------------------------------------------------------------------------
(* Specification of the pagination: every total_count, every tier's delay, *)
(* every kind of response; pages of at most one trade.                     *)

OrderPages == SUBSET (1..MaxOrders)
OrderCounts == 0..MaxOrders

Init == InitFetch(BOOLEAN, {DelayStarter, DelayPro}) /\ FifoIdle

Next ==
    \/ SendTrades
    \/ RecvTradesPage(TradePagesUpTo(1, 1), PagCounts, BOOLEAN)
    \/ RecvTradesNoResult(BOOLEAN)
    \/ RecvTradesFailure
    \/ SleepTrades
    \/ SendOrders
    \/ RecvOrdersPage(OrderPages, OrderCounts, BOOLEAN)
    \/ RecvOrdersNoResult(BOOLEAN)
    \/ RecvOrdersFailure
    \/ SleepOrders

Spec == Init /\ [][Next]_vars

(* Specification of the data path: pages of up to two trades of the whole *)
(* ledger, in every iteration order; two total_count values, so that one   *)
(* or two trade-history pages are fetched.                                 *)

DataCounts == {PageSize, 2 * PageSize}
DataOrderCounts == {0, 1}

InitData == InitFetch(BOOLEAN, {DelayPro}) /\ FifoIdle

NextData ==
    \/ SendTrades
    \/ RecvTradesPage(TradePagesUpTo(MaxTrades, 2), DataCounts, {FALSE})
    \/ RecvTradesNoResult({TRUE})
    \/ RecvTradesFailure
    \/ SleepTrades
    \/ SendOrders
    \/ RecvOrdersPage(OrderPages, DataOrderCounts, {FALSE})
    \/ RecvOrdersNoResult({TRUE})
    \/ RecvOrdersFailure
    \/ SleepOrders

SpecData == InitData /\ [][NextData]_vars

-----------------------------------------------------------------------------
(* Properties of fetch_trades.                                             *)

Reqs(coll) == SelectSeq(log, LAMBDA e : e.ev = "req" /\ e.coll = coll)
NReq(coll) == Len(Reqs(coll))
Events(coll) == SelectSeq(log, LAMBDA e : e.coll = coll)

\* the trade-history loop has been left through its break
TradesLoopDone == pc = "done" \/ pc = "o_send" \/ NReq("orders") > 0

CeilDiv(n, d) == (n + d - 1) \div d
Max(a, b) == IF a >= b THEN a ELSE b

\* C1: the trade-history requests carry the offsets 0, 50, 100, ... in that
\* order; the loop goes on past a page only if that page's total_count is
\* greater than offset + 50 and is left at the first page whose total_count
\* is <= offset + 50; with the same total_count N on every page exactly
\* max(1, ceil(N / 50)) requests are issued.
C1_TradePagination ==
    /\ \A k \in 1..NReq("trades") : Reqs("trades")[k].arg = (k - 1) * 50
    /\ (pc = "t_sleep" => trades_count > offset + 50)
    /\ (TradesLoopDone => trades_count <= (NReq("trades") - 1) * 50 + 50)
    /\ (TradesLoopDone /\ const_count >= 0
           => NReq("trades") = Max(1, CeilDiv(const_count, 50)))

C1_Witness ==
    /\ TradesLoopDone
    /\ const_count = 120
    /\ Reqs("trades") = <<Event("req", "trades", 0), Event("req", "trades", 50),
                          Event("req", "trades", 100)>>

\* C2: the closed-orders requests carry the offsets 0, 50, 100, ...; the
\* loop goes on past a page only while the number of DISTINCT order ids
\* collected is below that page's total_count, and is left only once the
\* number of distinct ids collected is >= that page's total_count.
C2_OrdersStopOnDistinct ==
    /\ \A k \in 1..NReq("orders") : Reqs("orders")[k].arg = (k - 1) * 50
    /\ (pc = "o_sleep" => Cardinality(ids_delivered) < orders_count)
    /\ (pc = "done" /\ userref => Cardinality(ids_delivered) >= orders_count)

\* C3: every run ends.  Each loop may issue MaxRequests requests in the
\* model, more than a loop that ends needs for the total_count values the
\* server reports here; a loop about to send a request has therefore not
\* used up that budget.
C3_FetchEnds ==
    /\ (pc = "t_send" => NReq("trades") < MaxRequests)
    /\ (pc = "o_send" => NReq("orders") < MaxRequests)

\* C4: in each loop, a pause of `delay` seconds follows the receipt of a
\* page and is followed by the next request of the same collection; every
\* request but the first of its collection comes directly after such a
\* pause; every page directly answers a request; and the last page of a
\* loop that was left is followed by no pause.
C4_PauseBetweenPages ==
    /\ \A i \in 1..Len(log) :
          /\ log[i].ev = "sleep" =>
                /\ log[i].arg = delay
                /\ i > 1
                /\ log[i - 1].ev = "page" /\ log[i - 1].coll = log[i].coll
                /\ i < Len(log) => log[i + 1].ev = "req" /\ log[i + 1].coll = log[i].coll
          /\ log[i].ev = "page" =>
                i > 1 /\ log[i - 1].ev = "req" /\ log[i - 1].coll = log[i].coll
          /\ (log[i].ev = "req" /\ i > 1 /\ log[i - 1].coll = log[i].coll) =>
                log[i - 1].ev = "sleep"
    /\ TradesLoopDone => Events("trades")[Len(Events("trades"))].ev = "page"
    /\ pc = "done" => log[Len(log)].ev = "page"

C4_Witness ==
    /\ pc = "done"
    /\ userref
    /\ NReq("trades") >= 3
    /\ NReq("orders") >= 2

\* C5: once a response has failed, could not be parsed or carried a
\* non-empty error list, the run is aborted at that response: nothing
\* follows it and nothing is returned.
C5_RemoteErrorFatal ==
    err_seen =>
       /\ pc \in {"exit", "panic"}
       /\ ~returned
       /\ log[Len(log)].ev \in {"noresult", "failure"}

\* C6: the returned trades are exactly the delivered records whose pair is
\* the symbol and, with a userref, whose ordertxid is among the order ids
\* delivered on the closed-orders pages.
C6_ReturnedTrades ==
    returned =>
       Range(trades) =
          {t \in delivered :
              t.pair = Symbol /\ (userref => t.ordertxid \in ids_delivered)}

C6_Witness ==
    /\ returned
    /\ userref
    /\ trades # <<>>
    /\ \E t \in delivered : t.pair # Symbol
    /\ \E t \in delivered : t.pair = Symbol /\ t.ordertxid \notin ids_delivered

\* C7: no trade (trade id) occurs twice in the returned sequence.
C7_Deduplicated ==
    returned =>
       \A i, j \in 1..Len(trades) : i # j => trades[i].txid # trades[j].txid

\* the trades kept after the closed-order filter, in the order in which
\* they were accumulated
Retained ==
    IF userref
    THEN SelectSeq(relevant_trades, LAMBDA t : t.ordertxid \in ids_delivered)
    ELSE relevant_trades

Times == {TimeOf(id) : id \in 1..MaxTrades}

\* C8: the returned sequence is non-decreasing in time, and for each
\* timestamp the returned trades with that timestamp are the retained trades
\* with that timestamp, in their accumulation order (hence a permutation of
\* the retained trades, stably sorted).
C8_StableSorted ==
    returned =>
       /\ \A i \in 1..(Len(trades) - 1) : trades[i].time <= trades[i + 1].time
       /\ \A tm \in Times :
             SelectSeq(trades, LAMBDA t : t.time = tm)
                = SelectSeq(Retained, LAMBDA t : t.time = tm)

C8_Witness ==
    /\ returned
    /\ trades # Retained
    /\ \E i, j \in 1..Len(trades) :
          i < j /\ trades[i].time = trades[j].time /\ trades[i].txid # trades[j].txid

\* C9: a second run fed the same pages returns the same sequence.
C9_Deterministic == returned => trades = twin_trades

-----------------------------------------------------------------------------
(* Properties of compute_fifo_pnl.                                         *)

RECURSIVE PrefixAmount(_, _)
PrefixAmount(q, k) == IF k = 0 THEN R(0) ELSE RAdd(PrefixAmount(q, k - 1), q[k].amount)

RECURSIVE PrefixCost(_, _)
PrefixCost(q, k) == IF k = 0 THEN R(0) ELSE RAdd(PrefixCost(q, k - 1), q[k].cost)

\* the length of the longest prefix of q whose amounts sum to at most a
CoveredPrefix(q, a) ==
    CHOOSE k \in 0..Len(q) :
        /\ RLe(PrefixAmount(q, k), a)
        /\ \A j \in 0..Len(q) : RLe(PrefixAmount(q, j), a) => j <= k

\* C10, one processed trade: the queue stays in acquisition order; a buy
\* appends its lot (a, a*p + f) at the back; a sell the queue can cover
\* removes the longest prefix of lots whose amounts sum to at most a and adds
\* their costs to the cost basis, and if a remainder r > 0 is left, the next
\* lot (m, c) becomes (m - r, c - (c/m)*r) at the front, (c/m)*r is added to
\* the cost basis, and the lots behind it are kept as they were.
FifoStep ==
    LET n == Len(processed')
        t == processed'[n]
        q == fifo_queue
        q2 == fifo_queue'
        basis == RSub(total_cost_of_sold_assets', total_cost_of_sold_assets)
    IN  n = Len(processed) + 1 =>
           /\ \A i \in 1..(Len(q2) - 1) : q2[i].born < q2[i + 1].born
           /\ t.side = "buy" =>
                 q2 = Append(q, Lot(t.vol, RAdd(RMul(t.vol, t.price), t.fee), n))
           /\ (t.side = "sell" /\ RLe(t.vol, PrefixAmount(q, Len(q)))) =>
                 LET k == CoveredPrefix(q, t.vol)
                     r == RSub(t.vol, PrefixAmount(q, k))
                 IN  IF r = R(0)
                     THEN /\ q2 = SubSeq(q, k + 1, Len(q))
                          /\ basis = PrefixCost(q, k)
                     ELSE LET m == q[k + 1].amount
                              c == q[k + 1].cost
                              slice == RMul(RDiv(c, m), r)
                          IN  /\ q2 = <<Lot(RSub(m, r), RSub(c, slice), q[k + 1].born)>>
                                         \o SubSeq(q, k + 2, Len(q))
                              /\ basis = RAdd(PrefixCost(q, k), slice)

\* C10: every step of compute_fifo_pnl matches lots first in, first out.
C10_FifoMatching == [][FifoStep]_vars

\* a sell consumed the oldest lot whole and split the second, with a third
\* lot behind it
C10_Witness ==
    /\ Len(processed) = 4
    /\ processed[4].side = "sell"
    /\ Len(fifo_queue) = 2
    /\ fifo_queue[1] = Lot(R(1), <<7, 2>>, 2)
    /\ fifo_queue[2].born = 3

\* C11, one processed trade: a sell of more than the queue holds leaves the
\* loop running and the queue empty; its cost basis is the sum of the costs
\* of the lots that were in the queue, its proceeds are a*p - f on the full
\* amount a, and the balance goes down by the full amount a.
OverSellStep ==
    LET n == Len(processed')
        t == processed'[n]
        q == fifo_queue
        held == PrefixAmount(q, Len(q))
        proceeds == RSub(RMul(t.vol, t.price), t.fee)
    IN  (n = Len(processed) + 1 /\ t.side = "sell" /\ RLt(held, t.vol)) =>
           /\ fpc' = "loop"
           /\ fifo_queue' = <<>>
           /\ RSub(total_cost_of_sold_assets', total_cost_of_sold_assets)
                 = PrefixCost(q, Len(q))
           /\ RSub(total_value_of_sold_assets', total_value_of_sold_assets) = proceeds
           /\ RSub(total_sell_volume_quote', total_sell_volume_quote) = proceeds
           /\ balance' = RSub(balance, t.vol)

\* C11: over-selling raises no error, empties the queue, takes the cost of
\* what was held as the cost basis and the full amount for proceeds and
\* balance.
C11_OverSelling == [][OverSellStep]_vars

\* a sell of 2 met a single lot of 1, and the next trade, a buy, was
\* processed after it
C11_Witness ==
    /\ Len(processed) = 3
    /\ processed[1].side = "buy" /\ processed[1].vol = R(1)
    /\ processed[2].side = "sell" /\ processed[2].vol = R(2)
    /\ processed[3].side = "buy" /\ processed[3].vol = R(1)
    /\ balance = R(0)
    /\ Len(fifo_queue) = 1 /\ fifo_queue[1].born = 3
    /\ total_cost_of_sold_assets
          = RAdd(RMul(processed[1].vol, processed[1].price), processed[1].fee)

\* the sum of the amounts of the first k trades of p that have the given side
RECURSIVE SumVol(_, _, _)
SumVol(p, k, side) ==
    IF k = 0 THEN R(0)
    ELSE IF p[k].side = side THEN RAdd(SumVol(p, k - 1, side), p[k].vol)
         ELSE SumVol(p, k - 1, side)

\* C12: after every processed trade and at the return, the balance is the
\* total buy volume minus the total sell volume, and these are the sums of
\* the amounts of the buys and of the sells processed so far.
C12_BalanceIdentity ==
    /\ balance = RSub(total_buy_volume_base, total_sell_volume_base)
    /\ total_buy_volume_base = SumVol(processed, Len(processed), "buy")
    /\ total_sell_volume_base = SumVol(processed, Len(processed), "sell")

\* the call returned after over-selling: bought 1, sold 2 and 2
C12_Witness ==
    /\ fpc = "returned"
    /\ total_buy_volume_base = R(1)
    /\ total_sell_volume_base = R(4)
    /\ balance = R(-3)
    /\ fifo_queue = <<>>

\* C13, one processed trade: a buy leaves the realized PnL as it was; with
\* no year argument a sell adds its proceeds minus its cost basis, and
\* after the trade the realized PnL is the total value of the sold assets
\* minus their total cost.
AdditiveStep ==
    LET n == Len(processed')
        t == processed'[n]
        proceeds == RSub(total_value_of_sold_assets', total_value_of_sold_assets)
        basis == RSub(total_cost_of_sold_assets', total_cost_of_sold_assets)
    IN  n = Len(processed) + 1 =>
           /\ t.side = "buy" => realized_pnl' = realized_pnl
           /\ year = NoYear =>
                 /\ t.side = "sell" =>
                       /\ proceeds = RSub(RMul(t.vol, t.price), t.fee)
                       /\ realized_pnl' = RAdd(realized_pnl, RSub(proceeds, basis))
                 /\ realized_pnl' =
                       RSub(total_value_of_sold_assets', total_cost_of_sold_assets')

\* C13: with year = None the realized PnL is the sum of proceeds - cost
\* basis over the sells, and no buy changes it.
C13_RealizedAdditive == [][AdditiveStep]_vars

\* no year argument; two sells with a fee were made from two lots and the
\* realized PnL is neither zero nor the PnL of one sell alone
C13_Witness ==
    /\ year = NoYear
    /\ Len(processed) = 4
    /\ processed[1].side = "buy" /\ processed[1].vol = R(2) /\ processed[1].price = R(2)
    /\ processed[2].side = "sell" /\ processed[2].vol = R(1) /\ processed[2].price = R(3)
    /\ processed[3].side = "buy" /\ processed[3].price = R(3)
    /\ processed[4].side = "sell" /\ processed[4].vol = R(2) /\ processed[4].price = R(3)
    /\ realized_pnl = RSub(total_value_of_sold_assets, total_cost_of_sold_assets)
    /\ realized_pnl # R(0)

\* C14, one processed trade of a call with year = Some(Y): a sell of
\* calendar year Y adds its pnl, proceeds a*p - f minus its cost basis, to
\* the realized PnL; a sell of another year adds nothing, and it takes its
\* lots from the queue, and their cost, as a sell of year Y does; no other
\* trade changes the realized PnL.  The realized PnL, 0 at the start, is so
\* the sum of the pnl of the sells of year Y.
YearFilterStep ==
    LET n == Len(processed')
        t == processed'[n]
        proceeds == RSub(RMul(t.vol, t.price), t.fee)
        basis == RSub(total_cost_of_sold_assets', total_cost_of_sold_assets)
        taken == ConsumeLots(fifo_queue, t.vol, R(0))
    IN  (n = Len(processed) + 1 /\ year # NoYear) =>
           IF t.side = "sell"
           THEN /\ fifo_queue' = taken.queue
                /\ basis = taken.cost_basis
                /\ realized_pnl' = IF TradeYear(t) = year
                                   THEN RAdd(realized_pnl, RSub(proceeds, basis))
                                   ELSE realized_pnl
           ELSE realized_pnl' = realized_pnl

\* C14: with year = Some(Y) exactly the sells of calendar year Y count for
\* the realized PnL, and the sells of other years still consume lots.
C14_YearFilter == [][YearFilterStep]_vars

\* year = Some(2024): a lot of 2 bought for 7; a sell of 1 dated 2023 took
\* half of it and counts for nothing, the sell of 1 dated 2024 took the
\* other half and makes the realized PnL 2 - 7/2
C14_Witness ==
    /\ year = 2024
    /\ fpc = "returned"
    /\ Len(processed) = 3
    /\ processed[1].side = "buy" /\ processed[1].vol = R(2)
    /\ processed[2].side = "sell" /\ TradeYear(processed[2]) = 2023
    /\ processed[3].side = "sell" /\ TradeYear(processed[3]) = 2024
    /\ fifo_queue = <<>>
    /\ realized_pnl = <<-3, 2>>

\* the locals of the running call
Locals ==
    [fifo_queue |-> fifo_queue, realized_pnl |-> realized_pnl, balance |-> balance,
     price |-> price,
     total_buy_volume_base |-> total_buy_volume_base,
     total_sell_volume_base |-> total_sell_volume_base,
     total_buy_volume_quote |-> total_buy_volume_quote,
     total_sell_volume_quote |-> total_sell_volume_quote,
     total_cost_of_sold_assets |-> total_cost_of_sold_assets,
     total_value_of_sold_assets |-> total_value_of_sold_assets]

\* the locals but the realized PnL
ButRealized(st) == [st EXCEPT !.realized_pnl = R(0)]

\* C15: a second call on the same trades with another year argument has,
\* after every trade, the same lot queue, price, balance, volumes, cost and
\* value of sold assets, and it returns the same unrealized PnL.
C15_YearOnlyRealized ==
    /\ twin_call.year # year
    /\ ButRealized(twin_call.locals) = ButRealized(Locals)
    /\ fpc = "returned" => twin_call.unrealized_pnl = unrealized_pnl

\* a call with year = Some(2023) returned after a sell dated 2024: its
\* realized PnL is 0 where the call without a year has one, the totals of
\* sold assets and the unrealized PnL are set
C15_Witness ==
    /\ fpc = "returned"
    /\ year = 2023
    /\ \E i \in 1..Len(processed) :
          processed[i].side = "sell" /\ TradeYear(processed[i]) = 2024
    /\ realized_pnl = R(0)
    /\ twin_call.locals.realized_pnl # R(0)
    /\ total_cost_of_sold_assets # R(0)
    /\ fifo_queue # <<>>
    /\ unrealized_pnl # R(0)

\* the price of the last buy or sell among the first k trades of p, 0 if
\* there is none
RECURSIVE LastSeenPrice(_, _)
LastSeenPrice(p, k) ==
    IF k = 0 THEN R(0)
    ELSE IF p[k].side \in {"buy", "sell"} THEN p[k].price
         ELSE LastSeenPrice(p, k - 1)

\* C16: the returned unrealized PnL is last_seen_price * (sum of the
\* remaining amounts) - (sum of the remaining costs), last_seen_price being
\* the price of the most recently processed buy or sell; 0 with an empty
\* queue.
C16_UnrealizedPnl ==
    fpc = "returned" =>
       /\ unrealized_pnl =
             RSub(RMul(LastSeenPrice(processed, Len(processed)),
                       PrefixAmount(fifo_queue, Len(fifo_queue))),
                  PrefixCost(fifo_queue, Len(fifo_queue)))
       /\ fifo_queue = <<>> => unrealized_pnl = R(0)

\* the lots of q without the number of the buy that made them
Amounts(q) == [i \in 1..Len(q) |-> <<q[i].amount, q[i].cost>>]

\* the trades of p a call accepts
ValidTrades(p) == SelectSeq(p, LAMBDA t : t.side \in {"buy", "sell"})

\* C18: a trade whose side is neither "buy" nor "sell" counts for nothing:
\* queue, totals, last-seen price and the returned unrealized PnL are those
\* of the call on the buys and sells alone.
C18_InvalidSideRejected ==
    LET valid == ComputeFifoPnl(ValidTrades(processed), year)
    IN  /\ Amounts(fifo_queue) = Amounts(valid.locals.fifo_queue)
        /\ [Locals EXCEPT !.fifo_queue = <<>>] = [valid.locals EXCEPT !.fifo_queue = <<>>]
        /\ fpc = "returned" => unrealized_pnl = valid.unrealized_pnl

\* C17, one processed trade of volume > 0: every lot of the queue has an
\* amount > 0 afterwards, and a lot that was in the queue has left it
\* exactly when the trade is a sell whose amount covers the lot and all
\* lots before it.
LotStep ==
    LET n == Len(processed')
        t == processed'[n]
        q == fifo_queue
        q2 == fifo_queue'
    IN  (n = Len(processed) + 1 /\ RLt(R(0), t.vol)) =>
           /\ \A j \in 1..Len(q2) : RLt(R(0), q2[j].amount)
           /\ \A i \in 1..Len(q) :
                 (\A j \in 1..Len(q2) : q2[j].born # q[i].born)
                    <=> (t.side = "sell" /\ RLe(PrefixAmount(q, i), t.vol))

\* C17: lots in the queue have a positive amount and leave it exactly when
\* fully consumed.
C17_LotInvariant == [][LotStep]_vars

\* a lot of 2 was split by a sell of 1, kept with amount 1 while a second
\* lot was bought, and removed by a second sell of 1
C17_Witness ==
    /\ Len(processed) = 4
    /\ processed[1].side = "buy" /\ processed[1].vol = R(2)
    /\ processed[2].side = "sell" /\ processed[2].vol = R(1)
    /\ processed[3].side = "buy" /\ processed[3].vol = R(1)
    /\ processed[4].side = "sell" /\ processed[4].vol = R(1)
    /\ Len(fifo_queue) = 1
    /\ fifo_queue[1].born = 3
    /\ fifo_queue[1].amount = R(1)

\* C20: after every processed trade, over-selling ones included, the total
\* acquisition cost is the total cost of the sold assets plus the costs of
\* the lots still in the queue.
C20_CostConservation ==
    total_buy_volume_quote
       = RAdd(total_cost_of_sold_assets, PrefixCost(fifo_queue, Len(fifo_queue)))

\* after an over-sell emptied the queue, a lot of 2 bought for 7 was split
\* by a sell of 1: 7/2 of its cost went to the sell, 7/2 stayed on the lot
C20_Witness ==
    /\ Len(processed) = 4
    /\ processed[1].side = "buy" /\ processed[1].vol = R(1)
    /\ processed[2].side = "sell" /\ processed[2].vol = R(2)
    /\ processed[3].side = "buy" /\ processed[3].vol = R(2)
    /\ processed[4].side = "sell" /\ processed[4].vol = R(1)
    /\ Len(fifo_queue) = 1
    /\ fifo_queue[1].cost = <<7, 2>>
    /\ total_buy_volume_quote = RAdd(total_cost_of_sold_assets, <<7, 2>>)

\* C19: every request of the run but the very first, of either collection,
\* comes after a pause of `delay` seconds made since the request before it;
\* so does the first closed-orders request after the last trade-history
\* page.
C19_PauseBeforeEveryRequest ==
    \A i \in 1..Len(log) :
        (log[i].ev = "req" /\ \E h \in 1..(i - 1) : log[h].ev = "req") =>
           \E j \in 1..(i - 1) :
              /\ log[j].ev = "sleep" /\ log[j].arg = delay
              /\ \A h \in (j + 1)..(i - 1) : log[h].ev # "req"

\* the amount the queue holds beyond the balance
Excess(q, b) == RSub(PrefixAmount(q, Len(q)), b)

\* C21, one processed trade: afterwards the lots of the queue sum to at
\* least the balance; a sell of more than the queue holds adds what it
\* could not take from the queue to the excess of the queue over the
\* balance, and every other trade, a later buy included, leaves that excess
\* as it was.
ConsistencyStep ==
    LET n == Len(processed')
        t == processed'[n]
        held == PrefixAmount(fifo_queue, Len(fifo_queue))
        before == Excess(fifo_queue, balance)
        after == Excess(fifo_queue', balance')
    IN  n = Len(processed) + 1 =>
           /\ RLe(balance', PrefixAmount(fifo_queue', Len(fifo_queue')))
           /\ IF t.side = "sell" /\ RLt(held, t.vol)
              THEN /\ after = RAdd(before, RSub(t.vol, held))
                   /\ RLt(before, after)
                   /\ fifo_queue' = <<>>
              ELSE after = before

\* C21: the queue holds the balance at the start and at least the balance
\* after every trade, exactly the balance as long as no sell has exceeded
\* the queue, and more than the balance for the rest of the call once one
\* has.
C21_QueueBalance ==
    /\ Excess(fifo_queue, balance) = R(0)
    /\ [][ConsistencyStep]_vars

\* bought 1, sold 2, bought 2: the call returned a balance of 1 while the
\* queue, valued by the unrealized PnL, holds 2
C21_Witness ==
    /\ fpc = "returned"
    /\ Len(processed) = 3
    /\ processed[1].side = "buy" /\ processed[1].vol = R(1)
    /\ processed[2].side = "sell" /\ processed[2].vol = R(2)
    /\ processed[3].side = "buy" /\ processed[3].vol = R(2)
    /\ balance = R(1)
    /\ PrefixAmount(fifo_queue, Len(fifo_queue)) = R(2)
    /\ unrealized_pnl = RSub(RMul(price, R(2)), PrefixCost(fifo_queue, Len(fifo_queue)))

====
